---------------------------- MODULE Spec2Model ----------------------------
(***************************************************************************)
(* A state-machine model of docs/kospi-widget.js: the KOSPI table widget.  *)
(*                                                                         *)
(* JavaScript values are tagged records: [t |-> "num", v |-> n],           *)
(* [t |-> "str", v |-> <<chars>>], [t |-> "undef"] (an absent property),   *)
(* [t |-> "null"] and [t |-> "nan"].  A string is a sequence of            *)
(* one-character strings.                                                  *)
(*                                                                         *)
(* The Korean row keys of the source are written in ASCII:                 *)
(*   "ticker" = 티커, "name" = 종목명, "sector" = 섹터,                    *)
(*   "cap" = 시가총액(억); PER, PBR, EPS, BPS and "#" are as in the source. *)
(***************************************************************************)
EXTENDS Integers, Sequences, FiniteSets, TLC

VARIABLES
  allRows,    \* let allRows (line 16)
  sortKey,    \* let sortKey (line 17)
  sortAsc,    \* let sortAsc (line 18)
  pc,         \* init(): "fetching" (suspended at the await), "loaded", "failed"
  fetches,    \* number of fetch() calls issued so far
  ctl,        \* the values of the seven filter controls
  options,    \* the <option>s appended to #kw-sector
  status,     \* #kw-status: class, text and whether it is displayed
  tableShown, \* #kw-table-wrap is displayed
  dateText,   \* #kw-date text
  thead,      \* the <th> cells of #kw-thead
  count,      \* #kw-count: the number shown, None before the first render
  tbody,      \* the <tr> rows of #kw-tbody
  threw,      \* the last render() call threw while building a row
  lastEvent,  \* the handler that ran last: "none", "load", "reset" or "event"
  renders     \* render() calls made by the last handler

vars == <<allRows, sortKey, sortAsc, pc, fetches, ctl, options, status,
          tableShown, dateText, thead, count, tbody, threw, lastEvent, renders>>

-----------------------------------------------------------------------------
(* Bounds *)

\* longest data array of a response under Spec
MaxRows == 2
\* longest data array of a response under SpecSort
MaxSortRows == 3

-----------------------------------------------------------------------------
(* JavaScript values and strings *)

Num(n) == [t |-> "num", v |-> n]
Str(s) == [t |-> "str", v |-> s]
Undef == [t |-> "undef"]
Null == [t |-> "null"]
NaN == [t |-> "nan"]
None == [t |-> "none"]

isNaN(x) == x.t # "num"

\* Boolean(v) as used by filter(Boolean) and by `sector && ...`
Truthy(x) ==
  CASE x.t = "num" -> x.v # 0
    [] x.t = "str" -> x.v # <<>>
    [] OTHER -> FALSE

\* the characters of the model, in UTF-16 code unit order
CodeUnits == <<" ", "(", ")", "-", "0", "1", "2", "3", "4", "5", "6", "7", "8", "9",
               "A", "B", "C", "a", "b", "c", "d", "e", "f", "i", "l", "n", "u", "x">>

IndexIn(seq, c) == CHOOSE i \in 1..Len(seq) : seq[i] = c

CodeUnit(c) == IndexIn(CodeUnits, c)

Lower(c) ==
  CASE c = "A" -> "a"
    [] c = "B" -> "b"
    [] c = "C" -> "c"
    [] OTHER -> c

toLowerCase(s) == <<>> \o [i \in 1..Len(s) |-> Lower(s[i])]

IsSpace(c) == c = " "

RECURSIVE trimStart(_)
trimStart(s) ==
  IF s # <<>> /\ IsSpace(Head(s)) THEN trimStart(Tail(s)) ELSE s

RECURSIVE trimEnd(_)
trimEnd(s) ==
  IF s # <<>> /\ IsSpace(s[Len(s)]) THEN trimEnd(SubSeq(s, 1, Len(s) - 1)) ELSE s

trim(s) == trimEnd(trimStart(s))

\* s.indexOf(t): the first 0-based position of t in s, or -1
indexOf(s, t) ==
  LET hits == {i \in 0..(Len(s) - Len(t)) : SubSeq(s, i + 1, i + Len(t)) = t}
  IN IF hits = {} THEN -1 ELSE CHOOSE i \in hits : \A j \in hits : i <= j

Digits == <<"0", "1", "2", "3", "4", "5", "6", "7", "8", "9">>

IsDigit(c) == \E i \in 1..Len(Digits) : Digits[i] = c

DigitVal(c) == IndexIn(Digits, c) - 1

RECURSIVE DigitPrefix(_)
DigitPrefix(s) ==
  IF s # <<>> /\ IsDigit(Head(s)) THEN <<Head(s)>> \o DigitPrefix(Tail(s)) ELSE <<>>

RECURSIVE DigitsValue(_)
DigitsValue(s) ==
  IF s = <<>> THEN 0 ELSE 10 * DigitsValue(SubSeq(s, 1, Len(s) - 1)) + DigitVal(s[Len(s)])

\* parseFloat(s) on the integer literals of the model: leading white space is
\* skipped, an optional sign and the longest run of digits are read, the rest
\* is ignored; no digits gives NaN.
parseFloat(s) ==
  LET t == trimStart(s)
      neg == t # <<>> /\ Head(t) = "-"
      u == IF neg THEN Tail(t) ELSE t
      d == DigitPrefix(u)
  IN IF d = <<>> THEN NaN
     ELSE Num(IF neg THEN 0 - DigitsValue(d) ELSE DigitsValue(d))

\* x * k for a parsed number
Times(x, k) == IF x.t = "num" THEN Num(x.v * k) ELSE NaN

RECURSIVE NatString(_)
NatString(n) ==
  IF n < 10 THEN <<Digits[n + 1]>> ELSE NatString(n \div 10) \o <<Digits[(n % 10) + 1]>>

\* String(v)
String(x) ==
  CASE x.t = "num" -> IF x.v < 0 THEN <<"-">> \o NatString(0 - x.v) ELSE NatString(x.v)
    [] x.t = "str" -> x.v
    [] x.t = "undef" -> <<"u", "n", "d", "e", "f", "i", "n", "e", "d">>
    [] x.t = "null" -> <<"n", "u", "l", "l">>
    [] OTHER -> <<"N", "a", "N">>

\* ToNumber(v) for the operands of `-`
ToNumber(x) ==
  CASE x.t = "num" -> x
    [] x.t = "null" -> Num(0)
    [] OTHER -> NaN

\* a - b
Minus(a, b) ==
  LET x == ToNumber(a)
      y == ToNumber(b)
  IN IF x.t = "num" /\ y.t = "num" THEN Num(x.v - y.v) ELSE NaN

\* a < b and a > b on a row value and a parsed bound: false when either is NaN
Less(a, b) ==
  LET x == ToNumber(a)
      y == ToNumber(b)
  IN x.t = "num" /\ y.t = "num" /\ x.v < y.v

Greater(a, b) == Less(b, a)

Sign(n) == IF n < 0 THEN -1 ELSE IF n > 0 THEN 1 ELSE 0

\* Collation ("ko" locale, default strength): white space and punctuation sort
\* before digits, digits before letters; letters differing only in case are
\* equal at the primary level and lower case sorts first at the tertiary one.
CollationOrder == <<" ", "(", ")", "-", "0", "1", "2", "3", "4", "5", "6", "7", "8", "9",
                    "a", "b", "c", "d", "e", "f", "i", "l", "n", "u", "x">>

Primary(c) == IndexIn(CollationOrder, Lower(c))

Tertiary(c) == IF Lower(c) = c THEN 0 ELSE 1

\* lexicographic comparison of two sequences of weights: -1, 0 or 1
RECURSIVE LexCompare(_, _)
LexCompare(a, b) ==
  IF a = <<>> THEN (IF b = <<>> THEN 0 ELSE -1)
  ELSE IF b = <<>> THEN 1
  ELSE IF Head(a) # Head(b) THEN Sign(Head(a) - Head(b))
  ELSE LexCompare(Tail(a), Tail(b))

\* s.localeCompare(t, "ko")
localeCompare(s, t) ==
  LET p == LexCompare(<<>> \o [i \in 1..Len(s) |-> Primary(s[i])],
                      <<>> \o [i \in 1..Len(t) |-> Primary(t[i])])
  IN IF p # 0 THEN p
     ELSE LexCompare(<<>> \o [i \in 1..Len(s) |-> Tertiary(s[i])],
                     <<>> \o [i \in 1..Len(t) |-> Tertiary(t[i])])

\* the default Array.prototype.sort() order of strings: by code units
CodeUnitCompare(s, t) ==
  LexCompare(<<>> \o [i \in 1..Len(s) |-> CodeUnit(s[i])],
             <<>> \o [i \in 1..Len(t) |-> CodeUnit(t[i])])

-----------------------------------------------------------------------------
(* Data *)

\* const COLS (lines 4-14)
COLS == <<
  [key |-> "#",      align |-> "right", sortable |-> FALSE],
  [key |-> "ticker", align |-> "left",  sortable |-> TRUE],
  [key |-> "name",   align |-> "left",  sortable |-> TRUE],
  [key |-> "sector", align |-> "left",  sortable |-> TRUE],
  [key |-> "cap",    align |-> "right", sortable |-> TRUE],
  [key |-> "PER",    align |-> "right", sortable |-> TRUE],
  [key |-> "PBR",    align |-> "right", sortable |-> TRUE],
  [key |-> "EPS",    align |-> "right", sortable |-> TRUE],
  [key |-> "BPS",    align |-> "right", sortable |-> TRUE] >>

SortableKeys == {COLS[i].key : i \in {j \in 1..Len(COLS) : COLS[j].sortable}}

NumericKeys == {"cap", "PER", "PBR", "EPS", "BPS"}

Row(ticker, name, sector, cap, per, pbr, eps, bps) ==
  [ticker |-> ticker, name |-> name, sector |-> sector, cap |-> cap,
   PER |-> per, PBR |-> pbr, EPS |-> eps, BPS |-> bps]

\* Rows the data model allows: EPS, BPS and the sector may be absent (or null).
RowA == Row(Str(<<"1">>), Str(<<"a", "B">>), Str(<<"a">>), Num(10000), Num(1), Num(1), Num(1), Num(1))
RowB == Row(Str(<<"2">>), Str(<<"c">>), Str(<<"B">>), Num(9999), Num(2), Num(0), Undef, Num(2))
RowC == Row(Str(<<"3">>), Str(<<"b">>), Undef, Num(10000), Num(0), Num(2), Num(2), Null)
\* A row the data model does not allow: its PER is absent.
RowBad == Row(Str(<<"4">>), Str(<<"B">>), Str(<<"a">>), Num(10000), Undef, Num(1), Num(1), Num(1))

GoodRows == {RowA, RowB, RowC}

WellFormedRow(r) ==
  /\ r.ticker.t = "str" /\ r.name.t = "str"
  /\ r.sector.t \in {"str", "undef", "null"}
  /\ r.cap.t = "num" /\ r.PER.t = "num" /\ r.PBR.t = "num"
  /\ r.EPS.t \in {"num", "undef", "null"}
  /\ r.BPS.t \in {"num", "undef", "null"}

WellFormed(rows) == \A i \in 1..Len(rows) : WellFormedRow(rows[i])

\* the data arrays of at most n distinct rows
DataArrays(n) ==
  UNION {{s \in [1..k -> GoodRows \cup {RowBad}] : \A i, j \in 1..k : s[i] = s[j] => i = j} :
         k \in 0..n}

\* What the fetch can deliver: a rejected fetch, a response that is not ok,
\* a body that is not JSON, or a JSON body {date, data}; the date may be missing.
Responses(n) ==
  {[kind |-> "network"], [kind |-> "badjson"]}
  \cup {[kind |-> "http", status |-> s] : s \in {404, 500}}
  \cup {[kind |-> "json", date |-> d, data |-> rows] :
          d \in {Undef, Str(<<"2", "0", "2", "4", "0", "1", "0", "2">>)}, rows \in DataArrays(n)}

EmptyControls ==
  [sector |-> <<>>, search |-> <<>>, perMin |-> <<>>, perMax |-> <<>>,
   pbrMin |-> <<>>, pbrMax |-> <<>>, capMin |-> <<>>]

\* What the user types into the text and number inputs during the sessions of
\* each specification: for every input, the values it is given.
SortingInputs ==
  [search |-> {<<>>, <<"B">>},
   perMin |-> {<<>>, <<"1">>},
   capMin |-> {<<>>, <<"1">>}]

SortSessionInputs == [search |-> {<<>>, <<"B">>}]

FilteringInputs ==
  [search |-> {<<>>, <<"B">>, <<" ">>},
   perMin |-> {<<>>, <<"1">>, <<"x">>},
   perMax |-> {<<>>, <<"1">>},
   pbrMin |-> {<<>>, <<"1">>},
   pbrMax |-> {<<>>, <<"1">>},
   capMin |-> {<<>>, <<"1">>}]

-----------------------------------------------------------------------------
(* render(), lines 76-138 *)

\* the filter values render() reads from the controls c (lines 77-83)
ReadControls(c) ==
  [sector |-> c.sector,
   search |-> toLowerCase(trim(c.search)),
   perMin |-> parseFloat(c.perMin),
   perMax |-> parseFloat(c.perMax),
   pbrMin |-> parseFloat(c.pbrMin),
   pbrMax |-> parseFloat(c.pbrMax),
   capMin |-> Times(parseFloat(c.capMin), 10000)]

\* Keep with the upper PER bound taken as exclusive
KeepPerMaxExclusive(r, f) ==
  /\ ~(f.sector # <<>> /\ r.sector # Str(f.sector))
  /\ ~(f.search # <<>> /\ indexOf(toLowerCase(r.name.v), f.search) = -1)
  /\ ~(~isNaN(f.perMin) /\ Less(r.PER, f.perMin))
  /\ ~(~isNaN(f.perMax) /\ ~Less(r.PER, f.perMax))
  /\ ~(~isNaN(f.pbrMin) /\ Less(r.PBR, f.pbrMin))
  /\ ~(~isNaN(f.pbrMax) /\ Greater(r.PBR, f.pbrMax))
  /\ ~(~isNaN(f.capMin) /\ Less(r.cap, f.capMin))

\* the filter callback (lines 85-94): does row r pass the filter values f
Keep(r, f) ==
  /\ ~(f.sector # <<>> /\ r.sector # Str(f.sector))
  /\ ~(f.search # <<>> /\ indexOf(toLowerCase(r.name.v), f.search) = -1)
  /\ ~(~isNaN(f.perMin) /\ Less(r.PER, f.perMin))
  /\ ~(~isNaN(f.perMax) /\ Greater(r.PER, f.perMax))
  /\ ~(~isNaN(f.pbrMin) /\ Less(r.PBR, f.pbrMin))
  /\ ~(~isNaN(f.pbrMax) /\ Greater(r.PBR, f.pbrMax))
  /\ ~(~isNaN(f.capMin) /\ Less(r.cap, f.capMin))

\* allRows.filter(...) (line 85): a new array, in the order of allRows
Filter(all, c) ==
  LET f == ReadControls(c)
      Test(r) == Keep(r, f)
  IN SelectSeq(all, Test)

\* the comparison function (lines 97-103); its result is a number or NaN
CompareFn(a, b, key, asc) ==
  LET av == a[key]
      bv == b[key]
  IN IF av.t = "num"
     THEN (IF asc THEN Minus(av, bv) ELSE Minus(bv, av))
     ELSE (IF asc THEN Num(localeCompare(String(av), String(bv)))
                  ELSE Num(localeCompare(String(bv), String(av))))

\* SortCompare of Array.prototype.sort: a NaN result counts as +0
SortCompare(a, b, key, asc) ==
  LET v == CompareFn(a, b, key, asc) IN IF v.t = "num" THEN Sign(v.v) ELSE 0

\* SortCompare on every pair of positions of rows, as a tuple of tuples
CompareTable(rows, key, asc) ==
  <<>> \o [i \in 1..Len(rows) |->
            <<>> \o [j \in 1..Len(rows) |-> SortCompare(rows[i], rows[j], key, asc)]]

\* ECMAScript's "consistent comparison function" for the elements of rows
Consistent(rows, key, asc) ==
  LET I == 1..Len(rows)
      C == CompareTable(rows, key, asc)
  IN /\ \A i \in I : C[i][i] = 0
     /\ \A i, j \in I : C[i][j] = 0 - C[j][i]
     /\ \A i, j, k \in I : C[i][j] = 0 /\ C[j][k] = 0 => C[i][k] = 0
     /\ \A i, j, k \in I : C[i][j] < 0 /\ C[j][k] < 0 => C[i][k] < 0
     /\ \A i, j, k \in I : C[i][j] = 0 /\ C[j][k] < 0 => C[i][k] < 0
     /\ \A i, j, k \in I : C[i][j] < 0 /\ C[j][k] = 0 => C[i][k] < 0

\* rows.slice().sort(cmp) (line 97): the arrays the sort may return.  With a
\* consistent comparison function the result is the stable sort of rows; with
\* an inconsistent one the order is implementation-defined (ECMA-262,
\* Array.prototype.sort) and any permutation of rows may come back.
Sorted(rows, key, asc) ==
  LET I == 1..Len(rows)
      C == CompareTable(rows, key, asc)
      perms == {p \in [I -> I] : \A i, j \in I : p[i] = p[j] => i = j}
      stable == {p \in perms : \A i, j \in I : i < j =>
                   \/ C[p[i]][p[j]] < 0
                   \/ (C[p[i]][p[j]] = 0 /\ p[i] < p[j])}
  IN {[i \in I |-> rows[p[i]]] : p \in (IF Consistent(rows, key, asc) THEN stable ELSE perms)}

\* the sort step (lines 96-104)
SortStep(rows, key, asc) ==
  IF key # "" /\ key # "#" THEN Sorted(rows, key, asc) ELSE {rows}

\* HeaderReflow that marks the sort key's cell and never unmarks the others
HeaderReflowNoClear(th, key, asc) ==
  [i \in 1..Len(th) |->
     IF ~COLS[i].sortable THEN th[i]
     ELSE [th[i] EXCEPT
             !.sorted = (th[i].sorted \/ COLS[i].key = key),
             !.arrow = IF COLS[i].key = key THEN (IF asc THEN "up" ELSE "down")
                       ELSE "updown"]]

\* the header reflow (lines 106-112)
HeaderReflow(th, key, asc) ==
  [i \in 1..Len(th) |->
     IF ~COLS[i].sortable THEN th[i]
     ELSE [th[i] EXCEPT
             !.sorted = (COLS[i].key = key),
             !.arrow = IF COLS[i].key = key THEN (IF asc THEN "up" ELSE "down")
                       ELSE "updown"]]

\* building one <tr> throws when cap.toLocaleString, per.toFixed or
\* r["PBR"].toFixed is called on a value that is not a number (lines 121-133)
RowThrows(r) == r.cap.t # "num" \/ r.PER.t # "num" \/ r.PBR.t # "num"

\* the <tr> of row r at index i (lines 118-137): its rank cell and its data cells
TableRow(r, i) == [rank |-> i, row |-> r]

\* the rows appended to the emptied tbody, up to the first row that throws
RowRender(rows) ==
  LET bad == {i \in 1..Len(rows) : RowThrows(rows[i])}
      n == IF bad = {} THEN Len(rows) ELSE (CHOOSE i \in bad : \A j \in bad : i <= j) - 1
  IN [i \in 1..n |-> TableRow(rows[i], i)]

\* render() on the module state (all, key, asc), the controls c and the header
\* cells th: the new header cells, count, body rows, and whether it threw
RenderResults(all, c, key, asc, th) ==
  {[thead |-> HeaderReflow(th, key, asc),
    count |-> Num(Len(rows)),
    tbody |-> RowRender(rows),
    threw |-> \E i \in 1..Len(rows) : RowThrows(rows[i])] :
     rows \in SortStep(Filter(all, c), key, asc)}

\* one call of render() as the last statement of a handler
render(all, c, key, asc, th) ==
  \E r \in RenderResults(all, c, key, asc, th) :
    /\ thead' = r.thead
    /\ count' = r.count
    /\ tbody' = r.tbody
    /\ threw' = r.threw
    /\ renders' = 1

-----------------------------------------------------------------------------
(* init() and buildHeader(), lines 20-74 *)

\* SectorSet without filter(Boolean)
SectorSetKeepsFalsy(rows) == {String(rows[i].sector) : i \in 1..Len(rows)}

\* the distinct truthy sector values of rows, as strings (line 32, before sort)
SectorSet(rows) ==
  {String(rows[i].sector) : i \in {j \in 1..Len(rows) : Truthy(rows[j].sector)}}

\* [...new Set(...)].sort() (line 32): the set in code unit order
Sectors(rows) ==
  LET S == SectorSet(rows)
  IN CHOOSE q \in [1..Cardinality(S) -> S] :
       \A i, j \in 1..Cardinality(S) : i < j => CodeUnitCompare(q[i], q[j]) < 0

\* the <option> appended for sector s (lines 35-38)
Option(s) == [value |-> s, text |-> s]

\* buildHeader() that registers the click listener on every column
buildHeaderAllClickable(th, key) ==
  th \o [i \in 1..Len(COLS) |->
           [key      |-> COLS[i].key,
            left     |-> COLS[i].align = "left",
            arrow    |-> IF COLS[i].sortable THEN "" ELSE "none",
            listener |-> TRUE,
            sorted   |-> COLS[i].key = key]]

\* buildHeader() (lines 52-74): one <th> per column appended to the cells th
buildHeader(th, key) ==
  th \o [i \in 1..Len(COLS) |->
           [key      |-> COLS[i].key,
            left     |-> COLS[i].align = "left",
            arrow    |-> IF COLS[i].sortable THEN "" ELSE "none",
            listener |-> COLS[i].sortable,
            sorted   |-> COLS[i].key = key]]

\* "기준일: " + d.slice(0, 4) + "-" + d.slice(4, 6) + "-" + d.slice(6, 8) (lines 29-30)
DateLabel(d) ==
  <<"date: ">> \o SubSeq(d, 1, 4) \o <<"-">> \o SubSeq(d, 5, 6) \o <<"-">> \o SubSeq(d, 7, 8)

\* e.message of what init() can throw
FetchRejected == [name |-> "TypeError", message |-> "Failed to fetch"]
HttpError(s) == [name |-> "Error", message |-> "HTTP error: ", status |-> s]
JsonRejected == [name |-> "SyntaxError", message |-> "Unexpected token"]
SliceOfUndefined == [name |-> "TypeError", message |-> "Cannot read properties of undefined (reading 'slice')"]
RowRenderError == [name |-> "TypeError", message |-> "Cannot read properties of undefined (reading 'toFixed')"]

\* the catch block (lines 45-49) on #kw-status st: "데이터를 불러오지 못했습니다. (" + e.message + ")"
Catch(st, e) ==
  [st EXCEPT !.cls = "kw-error", !.text = [prefix |-> "load failed (", reason |-> e, suffix |-> ")"]]

\* init() resumes with response resp: lines 22-24 throw before anything is assigned
InitRejects(resp) ==
  /\ resp.kind \in {"network", "http", "badjson"}
  /\ status' = Catch(status, CASE resp.kind = "network" -> FetchRejected
                               [] resp.kind = "http" -> HttpError(resp.status)
                               [] OTHER -> JsonRejected)
  /\ pc' = "failed"
  /\ renders' = 0
  /\ UNCHANGED <<allRows, options, tableShown, dateText, thead, count, tbody, threw>>

\* the body has no date: line 26 assigns allRows, d.slice (line 30) throws
InitNoDate(resp) ==
  /\ resp.kind = "json" /\ resp.date.t # "str"
  /\ allRows' = resp.data
  /\ status' = Catch(status, SliceOfUndefined)
  /\ pc' = "failed"
  /\ renders' = 0
  /\ UNCHANGED <<options, tableShown, dateText, thead, count, tbody, threw>>

\* lines 26-44, and the catch block when render() throws
InitLoads(resp) ==
  /\ resp.kind = "json" /\ resp.date.t = "str"
  /\ allRows' = resp.data
  /\ dateText' = DateLabel(resp.date.v)
  /\ options' = options \o [i \in 1..Len(Sectors(resp.data)) |-> Option(Sectors(resp.data)[i])]
  /\ tableShown' = TRUE
  /\ render(resp.data, ctl, sortKey, sortAsc, buildHeader(thead, sortKey))
  /\ status' = IF threw' THEN Catch([status EXCEPT !.shown = FALSE], RowRenderError)
               ELSE [status EXCEPT !.shown = FALSE]
  /\ pc' = IF threw' THEN "failed" ELSE "loaded"

\* the continuation of init() after `await fetch(DATA_URL)`, for the responses R
init(R) ==
  /\ pc = "fetching"
  /\ \E resp \in R : InitRejects(resp) \/ InitNoDate(resp) \/ InitLoads(resp)
  /\ lastEvent' = "load"
  /\ UNCHANGED <<sortKey, sortAsc, fetches, ctl>>

-----------------------------------------------------------------------------
(* The event listeners, lines 59-67 and 140-157 *)

\* the values the sector <select> can take: "" or one of its options
SectorValues == {<<>>} \cup {options[i].value : i \in 1..Len(options)}

\* "change" on #kw-sector (line 140)
SectorChange(v) ==
  /\ v \in SectorValues /\ v # ctl.sector
  /\ ctl' = [ctl EXCEPT !.sector = v]
  /\ render(allRows, ctl', sortKey, sortAsc, thead)
  /\ lastEvent' = "event"
  /\ UNCHANGED <<allRows, sortKey, sortAsc, pc, fetches, options, status, tableShown, dateText>>

\* "input" on one of the six text and number inputs (lines 141-146)
FilterInput(f, v) ==
  /\ v # ctl[f]
  /\ ctl' = [ctl EXCEPT ![f] = v]
  /\ render(allRows, ctl', sortKey, sortAsc, thead)
  /\ lastEvent' = "event"
  /\ UNCHANGED <<allRows, sortKey, sortAsc, pc, fetches, options, status, tableShown, dateText>>

\* ClickSort that starts every newly chosen column ascending
ClickSortAlwaysAscending(col, key, asc) ==
  IF key = col.key THEN [key |-> key, asc |-> ~asc]
  ELSE [key |-> col.key, asc |-> TRUE]

\* the sort state after the click listener of column col (lines 60-65)
ClickSort(col, key, asc) ==
  IF key = col.key THEN [key |-> key, asc |-> ~asc]
  ELSE [key |-> col.key, asc |-> col.key # "cap"]

\* HeaderClick whose render() sorts allRows itself instead of a copy
HeaderClickSortsInPlace(i) ==
  /\ i \in 1..Len(thead) /\ thead[i].listener
  /\ sortKey' = ClickSort(COLS[i], sortKey, sortAsc).key
  /\ sortAsc' = ClickSort(COLS[i], sortKey, sortAsc).asc
  /\ allRows' \in SortStep(allRows, sortKey', sortAsc')
  /\ render(allRows', ctl, sortKey', sortAsc', thead)
  /\ lastEvent' = "event"
  /\ UNCHANGED <<pc, fetches, ctl, options, status, tableShown, dateText>>

\* "click" on the i-th <th>, which has a listener (lines 59-67)
HeaderClick(i) ==
  /\ i \in 1..Len(thead) /\ thead[i].listener
  /\ sortKey' = ClickSort(COLS[i], sortKey, sortAsc).key
  /\ sortAsc' = ClickSort(COLS[i], sortKey, sortAsc).asc
  /\ render(allRows, ctl, sortKey', sortAsc', thead)
  /\ lastEvent' = "event"
  /\ UNCHANGED <<allRows, pc, fetches, ctl, options, status, tableShown, dateText>>

\* ResetControls that forgets the market-cap input
ResetControlsKeepsCap(c) ==
  [c EXCEPT !.sector = <<>>, !.search = <<>>, !.perMin = <<>>, !.perMax = <<>>,
            !.pbrMin = <<>>, !.pbrMax = <<>>]

\* the controls after the reset listener's assignments (lines 149-155)
ResetControls(c) ==
  [c EXCEPT !.sector = <<>>, !.search = <<>>, !.perMin = <<>>, !.perMax = <<>>,
            !.pbrMin = <<>>, !.pbrMax = <<>>, !.capMin = <<>>]

\* ResetClick that clears the controls and does not call render()
ResetClickNoRender ==
  /\ ctl' = ResetControls(ctl)
  /\ renders' = 0
  /\ lastEvent' = "reset"
  /\ UNCHANGED <<allRows, sortKey, sortAsc, pc, fetches, options, status, tableShown,
                 dateText, thead, count, tbody, threw>>

\* "click" on #kw-reset (lines 148-157)
ResetClick ==
  /\ ctl' = ResetControls(ctl)
  /\ render(allRows, ctl', sortKey, sortAsc, thead)
  /\ lastEvent' = "reset"
  /\ UNCHANGED <<allRows, sortKey, sortAsc, pc, fetches, options, status, tableShown, dateText>>

-----------------------------------------------------------------------------
(* Specifications *)

\* the page after the script has run to its end: init() has called fetch()
\* and is suspended; the template shows the status region and hides the table
Init ==
  /\ allRows = <<>>
  /\ sortKey = "cap"
  /\ sortAsc = FALSE
  /\ pc = "fetching"
  /\ fetches = 1
  /\ ctl = EmptyControls
  /\ options = <<>>
  /\ status = [cls |-> "", text |-> None, shown |-> TRUE]
  /\ tableShown = FALSE
  /\ dateText = <<>>
  /\ thead = <<>>
  /\ count = None
  /\ tbody = <<>>
  /\ threw = FALSE
  /\ lastEvent = "none"
  /\ renders = 0

\* the events of a session: the fetch settles with a response of R, the user
\* picks a sector, types one of the values inputs[f] into input f, clicks one
\* of the header cells cols, or clicks reset
Events(R, inputs, cols) ==
  \/ init(R)
  \/ \E v \in SectorValues : SectorChange(v)
  \/ \E f \in DOMAIN inputs : \E v \in inputs[f] : FilterInput(f, v)
  \/ \E i \in cols : HeaderClick(i)
  \/ ResetClick

\* sessions that click every header cell and use some of the filters
Next == Events(Responses(MaxRows), SortingInputs, 1..Len(COLS))

Spec == Init /\ [][Next]_vars

\* sessions that use every filter and click the name header
NextFilter == Events(Responses(MaxRows), FilteringInputs, {3})

SpecFilter == Init /\ [][NextFilter]_vars

\* sessions over longer data arrays that click every header cell and search
NextSort == Events(Responses(MaxSortRows), SortSessionInputs, 1..Len(COLS))

SpecSort == Init /\ [][NextSort]_vars

-----------------------------------------------------------------------------
(* Vocabulary of the properties *)

\* the rows shown in the table body, as a set and in order
RenderedRows == {tbody[i].row : i \in 1..Len(tbody)}
RowsOf(rows) == {rows[i] : i \in 1..Len(rows)}

\* a control holds a number when it is a non-empty run of digits
IsNumeral(s) == s # <<>> /\ \A i \in 1..Len(s) : IsDigit(s[i])
Entered(s) == DigitsValue(s)

\* `text` occurs in `name`, ignoring case
ContainsIgnoringCase(name, text) ==
  \E i \in 1..(Len(name) - Len(text) + 1) :
    \A k \in 1..Len(text) : Lower(name[i + k - 1]) = Lower(text[k])

\* the numeric constraints of the filter on row r under controls c
NumericConstraints(r, c) ==
  /\ IsNumeral(c.perMin) => r.PER.v >= Entered(c.perMin)
  /\ IsNumeral(c.perMax) => r.PER.v <= Entered(c.perMax)
  /\ IsNumeral(c.pbrMin) => r.PBR.v >= Entered(c.pbrMin)
  /\ IsNumeral(c.pbrMax) => r.PBR.v <= Entered(c.pbrMax)
  /\ IsNumeral(c.capMin) => r.cap.v >= Entered(c.capMin) * 10000

SectorConstraint(r, c) == c.sector # <<>> => (r.sector.t = "str" /\ r.sector.v = c.sector)

\* the last handler called render() on a data array of the data model
RenderedDataset == renders = 1 /\ WellFormed(allRows)

-----------------------------------------------------------------------------
(* C1: the filter *)

\* C1 as stated: after render() on a Dataset, the rows shown are exactly the
\* rows of the Dataset that have the selected sector (if one is selected),
\* whose name contains the search text ignoring case (if the search box is not
\* empty), whose PER and PBR lie within the entered bounds and whose market cap
\* is at least the entered value times 10000.
C1_FilterExact_AsStated ==
  (pc = "loaded" /\ RenderedDataset) =>
    RenderedRows = {r \in RowsOf(allRows) :
                      /\ SectorConstraint(r, ctl)
                      /\ ctl.search # <<>> => ContainsIgnoringCase(r.name.v, ctl.search)
                      /\ NumericConstraints(r, ctl)}

\* C1 as amended: the same, with the search constraint on the search text
\* stripped of leading and trailing white space, and active only when the
\* stripped text is not empty.
C1_FilterExact ==
  RenderedDataset =>
    RenderedRows = {r \in RowsOf(allRows) :
                      /\ SectorConstraint(r, ctl)
                      /\ trim(ctl.search) # <<>> =>
                           ContainsIgnoringCase(r.name.v, trim(ctl.search))
                      /\ NumericConstraints(r, ctl)}

\* a loaded table in which sector, search, a PER bound, a PBR bound and the cap
\* bound are all set, some row passes and some row is filtered out
C1_Witness ==
  /\ pc = "loaded" /\ RenderedDataset
  /\ ctl.sector # <<>> /\ trim(ctl.search) # <<>>
  /\ IsNumeral(ctl.perMax) /\ IsNumeral(ctl.pbrMin) /\ IsNumeral(ctl.capMin)
  /\ Len(tbody) = 1 /\ Len(allRows) = 2

-----------------------------------------------------------------------------
(* C2: the sort order on numeric keys *)

\* C2 as stated: after render() on a Dataset under a numeric sort key, the
\* numbers under the key do not decrease down the rows when ascending, and do
\* not increase when descending (the reverse order of every pair of rows with
\* distinct values); rows whose value is absent are left out of the comparison.
C2_NumericOrder_AsStated ==
  (pc = "loaded" /\ RenderedDataset /\ sortKey \in NumericKeys) =>
    \A i, j \in 1..Len(tbody) :
      (i < j /\ tbody[i].row[sortKey].t = "num" /\ tbody[j].row[sortKey].t = "num") =>
        IF sortAsc THEN tbody[i].row[sortKey].v <= tbody[j].row[sortKey].v
        ELSE tbody[i].row[sortKey].v >= tbody[j].row[sortKey].v

-----------------------------------------------------------------------------
(* C3: reset *)

\* C3: a step of the reset listener after a successful load of a Dataset
\* leaves all seven controls empty, shows every row of the Dataset, shows the
\* Dataset's size as the count, and keeps the sort key and direction.
C3_Reset ==
  [][(lastEvent' = "reset" /\ pc = "loaded" /\ WellFormed(allRows)) =>
       /\ \A f \in DOMAIN ctl' : ctl'[f] = <<>>
       /\ DOMAIN ctl' = {"sector", "search", "perMin", "perMax", "pbrMin", "pbrMax", "capMin"}
       /\ {tbody'[i].row : i \in 1..Len(tbody')} = RowsOf(allRows)
       /\ Len(tbody') = Len(allRows)
       /\ count' = Num(Len(allRows))
       /\ sortKey' = sortKey /\ sortAsc' = sortAsc]_vars

\* the reset listener has just run on a loaded table of two rows that is
\* sorted by name, descending
C3_Witness ==
  /\ lastEvent = "reset" /\ pc = "loaded" /\ WellFormed(allRows)
  /\ Len(allRows) = 2 /\ Len(tbody) = 2
  /\ sortKey = "name" /\ ~sortAsc

-----------------------------------------------------------------------------
(* C4: load failure *)

\* C4 as stated: once init() has failed, the status region is displayed in its
\* error state with a message that embeds the reason (the status code of a
\* response that is not ok), the table region is hidden, and only the one
\* fetch has been issued.
C4_LoadFailure_AsStated ==
  pc = "failed" =>
    /\ status.cls = "kw-error" /\ status.shown
    /\ status.text # None /\ status.text.reason.message # ""
    /\ ~tableShown
    /\ fetches = 1

-----------------------------------------------------------------------------
(* C5: header clicks *)

\* C5: a click on the header of a sortable column that is not the sort key
\* makes it the sort key, descending for the market-cap column and ascending
\* for every other one; a click on the header of the sort key keeps the key and
\* flips the direction; either way render() runs once and the controls keep
\* their values.
C5_HeaderClick ==
  [][\A i \in 1..Len(COLS) :
       (HeaderClick(i) /\ COLS[i].sortable) =>
         /\ IF COLS[i].key # sortKey
            THEN sortKey' = COLS[i].key /\ sortAsc' = (COLS[i].key # "cap")
            ELSE sortKey' = sortKey /\ sortAsc' = ~sortAsc
         /\ renders' = 1
         /\ ctl' = ctl]_vars

\* the table is sorted by market cap, ascending, with a filter set: the cap
\* header was clicked while it was the sort key
C5_Witness ==
  /\ pc = "loaded" /\ lastEvent = "event"
  /\ sortKey = "cap" /\ sortAsc
  /\ ctl.search # <<>>

-----------------------------------------------------------------------------
(* C6: the sort key *)

\* C6: in every reachable state the sort key is the key of one of the eight
\* sortable columns, and never the rank column "#".
C6_SortKeySortable ==
  /\ sortKey \in {"ticker", "name", "sector", "cap", "PER", "PBR", "EPS", "BPS"}
  /\ sortKey # "#"
  /\ \E i \in 1..Len(COLS) : COLS[i].key = sortKey /\ COLS[i].sortable

\* a header click has made the last column the sort key
C6_Witness == lastEvent = "event" /\ sortKey = "BPS" /\ pc = "loaded"

-----------------------------------------------------------------------------
(* C7: the active header cell *)

SortedCells == {i \in 1..Len(thead) : thead[i].sorted}

\* exactly one header cell is marked, it is the one of the sort key, its
\* arrow is up when ascending and down when descending, and every other
\* sortable header shows the up/down pair
OneActiveHeader ==
  /\ Cardinality(SortedCells) = 1
  /\ \A i \in SortedCells : thead[i].key = sortKey
  /\ \A i \in 1..Len(thead) :
       COLS[i].sortable =>
         thead[i].arrow = IF thead[i].key = sortKey
                          THEN (IF sortAsc THEN "up" ELSE "down")
                          ELSE "updown"

-----------------------------------------------------------------------------
(* C8: the Dataset is not mutated *)

\* C8: allRows is assigned only by init() when the fetch settles, at most
\* once, and no listener changes it: whatever is filtered and sorted, the
\* stored rows and their order stay as loaded.
C8_DatasetImmutable ==
  [][/\ allRows' # allRows => (pc = "fetching" /\ pc' # "fetching")
     /\ pc # "fetching" => allRows' = allRows]_vars

\* a loaded table whose body shows the two rows in the reverse of the stored
\* order
C8_Witness ==
  /\ pc = "loaded" /\ lastEvent = "event" /\ WellFormed(allRows)
  /\ Len(allRows) = 2 /\ Len(tbody) = 2
  /\ tbody[1].row = allRows[2] /\ tbody[2].row = allRows[1]

-----------------------------------------------------------------------------
(* C9: the sector options *)

\* the options are the distinct non-empty sector strings of rows, each once
OptionsAreSectorsOf(rows) ==
  /\ {options[i].value : i \in 1..Len(options)} =
       {r.sector.v : r \in {x \in RowsOf(rows) : x.sector.t = "str" /\ x.sector.v # <<>>}}
  /\ \A i, j \in 1..Len(options) : options[i].value = options[j].value => i = j

\* C9: after a successful load the options added to the sector control are
\* the distinct non-empty sectors of the whole Dataset, each once, whatever
\* has been filtered, clicked or reset since; before the load there are none.
C9_SectorOptions ==
  /\ pc = "loaded" => OptionsAreSectorsOf(allRows)
  /\ pc = "fetching" => options = <<>>

\* a loaded table with two sectors, filtered down to the rows of one of them
C9_Witness ==
  /\ pc = "loaded" /\ lastEvent = "event"
  /\ Len(options) = 2 /\ ctl.sector # <<>> /\ Len(tbody) = 1

-----------------------------------------------------------------------------
(* C10: no stale display *)

\* the body rows, their ranks and the count are an outcome of filtering and
\* then sorting allRows under the current controls and sort state
DisplayIsCurrent ==
  \E rows \in SortStep(Filter(allRows, ctl), sortKey, sortAsc) :
    /\ Len(tbody) = Len(rows)
    /\ \A i \in 1..Len(rows) : tbody[i].rank = i /\ tbody[i].row = rows[i]
    /\ count = Num(Len(rows))

\* C10: after a successful load, and after every listener that ran to its
\* end, the display is current; before the load settles every listener
\* renders zero rows.
C10_NoStaleDisplay ==
  /\ (lastEvent = "load" /\ pc = "loaded") => DisplayIsCurrent
  /\ (lastEvent \in {"event", "reset"} /\ ~threw) => DisplayIsCurrent
  /\ (lastEvent \in {"event", "reset"} /\ pc = "fetching") => (tbody = <<>> /\ count = Num(0))

\* the load has just completed with a search text that was typed while the
\* fetch was pending, and the first render left a row out
C10_Witness ==
  /\ lastEvent = "load" /\ pc = "loaded"
  /\ ctl.search # <<>> /\ Len(tbody) < Len(allRows) /\ Len(tbody) > 0

=============================================================================
